---- MODULE Spec2Model ----
(***************************************************************************)
(* Model of the decision-and-bookkeeping engine of ngostream/peer:         *)
(* VideoCamera (src/camera.py) and the request handlers that drive it      *)
(* (src/main.py).                                                          *)
(*                                                                         *)
(* Units.  Vertical coordinates are normalised floats in [0,1]; they are   *)
(* modelled in hundredths (0..100).  shoulder_y is the mean of two         *)
(* coordinates, so distances and baseline_dist are kept in two-hundredths  *)
(* (0.22 is 44, the 0.05 buffer is 10).  focus_score moves in steps of 0.5 *)
(* and 0.1 and is kept in tenths (100 is 1000).  time.time() is a clock    *)
(* `now` in ticks, TicksPerSec ticks to the second; int(t) truncates to    *)
(* whole seconds.  Floating-point rounding is not modelled.                *)
(***************************************************************************)
EXTENDS Integers, Sequences, FiniteSets, TLC

VARIABLES
    status,                          \* self.status
    focus_score,                     \* self.focus_score, in tenths
    distracted_frames,               \* self.distracted_frames
    baseline_dist,                   \* self.baseline_dist, in two-hundredths
    is_calibrating,                  \* self.is_calibrating
    history,                         \* self.history
    started_at,                      \* the start time of each entry of history, before int()
    snapshot_files,                  \* the snapshot files that exist under static/
    sessions,                        \* self.sessions
    is_currently_distracted,         \* self.is_currently_distracted
    distraction_start_time,          \* self.distraction_start_time
    distraction_reason,              \* self.distraction_reason
    distraction_snapshot_filename,   \* self.distraction_snapshot_filename
    current_session_start,           \* self.current_session_start
    current_session_history_index,   \* self.current_session_history_index
    now,                             \* the value time.time() returns, in ticks
    streaming,                       \* a generate_frames loop is running
    last,                            \* the last handler that ran: its inputs, locals and result
    pc,                              \* position of the in-flight get_frame (race model)
    inflight,                        \* that frame's signals and locals
    pending_call,                    \* a returned calibrate() has not been honoured yet
    fresh_call,                      \* calibrate() returned after the in-flight frame's armed check
    calls,                           \* per caller, the position and locals of its get_frame (two-caller model)
    round                            \* the frames in flight together: what they found and what they did

camvars == <<status, focus_score, distracted_frames, is_currently_distracted,
             distraction_start_time, distraction_reason,
             distraction_snapshot_filename, history, started_at,
             snapshot_files>>
calvars == <<baseline_dist, is_calibrating>>
sessvars == <<sessions, current_session_start, current_session_history_index>>
racevars == <<pc, inflight, pending_call, fresh_call>>
twovars == <<calls, round>>
vars == <<camvars, calvars, sessvars, now, streaming, last, racevars, twovars>>

----------------------------------------------------------------------------
(* Bounds of the model *)

MaxDF == 17          \* longest run of distracted frames explored by Spec
MaxRun == 217        \* longest run of distracted frames explored by SpecScore
MaxBurst == 2        \* longest run of distracted frames explored by SpecClassify, SpecRace
MaxHistory == 2      \* history entries explored
MaxScoreEvents == 1  \* history entries explored by SpecScore
MaxSessionEvents == 1  \* history entries explored by SpecSession
MaxSessions == 1     \* session summaries explored
MaxClock == 2        \* last tick of the clock
MaxDet == 2          \* detections per frame
TicksPerSec == 2     \* resolution of the clock

(* Program constants *)

None == -1                       \* Python's None, for times, indexes and file names
DISTRACTION_THRESHOLD == 15
DefaultBaseline == 44            \* 0.22
CalibrationBuffer == 10          \* 0.05
InitialScore == 1000             \* 100
MaxScore == 1000                 \* 100
ScoreDecay == 5                  \* 0.5
ScoreRecovery == 1               \* 0.1
ScoreUnit == 10                  \* tenths per point: int(self.focus_score)

PhoneCategories == {"cell phone", "mobile phone"}
StudyCategories == {"book", "laptop"}
Categories == PhoneCategories \cup StudyCategories      \* category_allowlist

----------------------------------------------------------------------------
(* Frame inputs *)

Pose(n, l, r) == [nose |-> n, left_shoulder |-> l, right_shoulder |-> r]

\* three postures: the nose well above the shoulders, nearer, and close to them
Upright == <<Pose(20, 50, 50)>>
Leaning == <<Pose(27, 50, 50)>>
Slouched == <<Pose(45, 50, 51)>>

\* pose_result.pose_landmarks: an empty list, or one pose
PoseInputs == { <<>>, Upright, Leaning, Slouched }

DetectionInputs == UNION { [1..n -> Categories] : n \in 0..MaxDet }

\* what cv2.imwrite does if the frame comes to write a snapshot: it writes
\* the file, or returns False without writing it, or raises cv2.error
ImwriteOutcomes == {"written", "not_written", "raises"}

\* a frame: the camera read, the detections, the poses, and the outcome of
\* the snapshot write (the file is written unless said otherwise)
Signal(ok, dets, pose) ==
    [success |-> ok, detections |-> dets, pose_landmarks |-> pose,
     imwrite |-> "written"]

\* camera.read() failed: nothing else is read
FailedRead == Signal(FALSE, <<>>, <<>>)

Signals == { Signal(TRUE, d, p) : d \in DetectionInputs, p \in PoseInputs } \cup {FailedRead}

\* an empty scene and a phone
SceneSignals ==
    { Signal(TRUE, <<>>, <<>>), Signal(TRUE, <<"cell phone">>, <<>>) }

\* the same, and a failed read
PlainSignals == SceneSignals \cup {FailedRead}

\* one frame of each branch of the decision tree
BranchSignals ==
    PlainSignals \cup
    { Signal(TRUE, <<"book", "mobile phone">>, Slouched),
      Signal(TRUE, <<"laptop">>, Slouched),
      Signal(TRUE, <<>>, Upright),
      Signal(TRUE, <<>>, Slouched) }

\* frames that open an event for either reason, frames that close it, and
\* a failed read
EventSignals == PlainSignals \cup { Signal(TRUE, <<>>, Slouched) }

\* an empty scene, and a phone with each outcome of the snapshot write
SnapshotSignals ==
    { Signal(TRUE, <<>>, <<>>) } \cup
    { [Signal(TRUE, <<"cell phone">>, <<>>) EXCEPT !.imwrite = o] :
          o \in ImwriteOutcomes }

\* pose-bearing frames and a phone, for the calibration race
PoseSignals ==
    { Signal(TRUE, <<>>, p) : p \in PoseInputs } \cup
    { Signal(TRUE, <<"cell phone">>, Upright) }

----------------------------------------------------------------------------
(* get_frame: the object analysis loop *)

NoDetection == [has_phone |-> FALSE, has_study_material |-> FALSE]

\* one iteration of the loop over det_result.detections
ScanStep(flags, category) ==
    IF category \in PhoneCategories
    THEN [flags EXCEPT !.has_phone = TRUE]
    ELSE IF category \in StudyCategories
         THEN [flags EXCEPT !.has_study_material = TRUE]
         ELSE flags

RECURSIVE ScanFrom(_, _, _)
ScanFrom(dets, i, flags) ==
    IF i > Len(dets) THEN flags
    ELSE ScanFrom(dets, i + 1, ScanStep(flags, dets[i]))

ScanDetections(dets) == ScanFrom(dets, 1, NoDetection)

(* get_frame: the posture branch.  Distances are doubled so that          *)
(* shoulder_y = (left + right) / 2 stays an integer.                       *)

\* 2 * shoulder_y
ShoulderSum(lm) == lm.left_shoulder + lm.right_shoulder

\* 2 * (current_dist - 0.05), the baseline a calibrating frame installs
CalibratedBaseline(lm) == (ShoulderSum(lm) - 2 * lm.nose) - CalibrationBuffer

\* nose.y > shoulder_y - baseline_dist
NoseBelowLine(lm, baseline) == 2 * lm.nose > ShoulderSum(lm) - baseline

\* faulty variant: the comparison is made with the baseline the frame found
BaselineForStale(lm, baseline, armed) == baseline

\* the baseline in force for the comparison of this frame
BaselineFor(lm, baseline, armed) ==
    IF armed THEN CalibratedBaseline(lm) ELSE baseline

\* self.is_calibrating after the calibration check of a pose-bearing frame
ArmedAfterCheck(armed) == IF armed THEN FALSE ELSE armed

(* get_frame: the decision tree.  The result carries the raw verdict and  *)
(* the calibration state the frame leaves behind.                          *)

Verdict(d, r, b, a, p) ==
    [is_distracted |-> d, reason |-> r, baseline_dist |-> b,
     is_calibrating |-> a, posture_checked |-> p]

\* faulty variant: study material is tested before the phone
ClassifyStudyFirst(dets, pose, baseline, armed) ==
    LET flags == ScanDetections(dets) IN
    IF flags.has_study_material
    THEN Verdict(FALSE, "STUDYING", baseline, armed, FALSE)
    ELSE IF flags.has_phone
    THEN Verdict(TRUE, "PHONE", baseline, armed, FALSE)
    ELSE IF pose # <<>>
    THEN LET lm == pose[1]
             b == BaselineFor(lm, baseline, armed)
         IN  IF NoseBelowLine(lm, b)
             THEN Verdict(TRUE, "POSTURE", b, ArmedAfterCheck(armed), TRUE)
             ELSE Verdict(FALSE, "", b, ArmedAfterCheck(armed), TRUE)
    ELSE Verdict(FALSE, "", baseline, armed, FALSE)

\* faulty variant: the posture is tested before the study material
ClassifyPostureFirst(dets, pose, baseline, armed) ==
    LET flags == ScanDetections(dets) IN
    IF flags.has_phone
    THEN Verdict(TRUE, "PHONE", baseline, armed, FALSE)
    ELSE IF pose # <<>> /\ NoseBelowLine(pose[1], BaselineFor(pose[1], baseline, armed))
    THEN Verdict(TRUE, "POSTURE", BaselineFor(pose[1], baseline, armed),
                 ArmedAfterCheck(armed), TRUE)
    ELSE IF flags.has_study_material
    THEN Verdict(FALSE, "STUDYING", baseline, armed, FALSE)
    ELSE IF pose # <<>>
    THEN Verdict(FALSE, "", BaselineFor(pose[1], baseline, armed),
                 ArmedAfterCheck(armed), TRUE)
    ELSE Verdict(FALSE, "", baseline, armed, FALSE)

Classify(dets, pose, baseline, armed) ==
    LET flags == ScanDetections(dets) IN
    IF flags.has_phone
    THEN Verdict(TRUE, "PHONE", baseline, armed, FALSE)
    ELSE IF flags.has_study_material
    THEN Verdict(FALSE, "STUDYING", baseline, armed, FALSE)
    ELSE IF pose # <<>>
    THEN LET lm == pose[1]
             b == BaselineFor(lm, baseline, armed)
         IN  IF NoseBelowLine(lm, b)
             THEN Verdict(TRUE, "POSTURE", b, ArmedAfterCheck(armed), TRUE)
             ELSE Verdict(FALSE, "", b, ArmedAfterCheck(armed), TRUE)
    ELSE Verdict(FALSE, "", baseline, armed, FALSE)

----------------------------------------------------------------------------
(* get_frame: hysteresis, score and the event recorder *)

Min(a, b) == IF a < b THEN a ELSE b
Max(a, b) == IF a > b THEN a ELSE b

\* int(t) for a time in ticks: whole seconds
IntSeconds(t) == t \div TicksPerSec

\* faulty variant: a frame that is not distracted does not reset the counter
CountFramesNoReset(frames, is_distracted) == frames + 1

CountFrames(frames, is_distracted) ==
    IF is_distracted THEN frames + 1 ELSE 0

\* faulty variant: the debounce is off by one
OverThresholdOffByOne(frames) == frames >= DISTRACTION_THRESHOLD

OverThreshold(frames) == frames > DISTRACTION_THRESHOLD

\* faulty variant: the status flips one frame before the score rule does
StableStatusOffByOne(frames) ==
    IF frames >= DISTRACTION_THRESHOLD THEN "DISTRACTED" ELSE "FOCUSED"

StableStatus(frames) ==
    IF OverThreshold(frames) THEN "DISTRACTED" ELSE "FOCUSED"

\* faulty variant: the decay is not floored at 0
UpdateScoreNoFloor(score, frames) ==
    IF OverThreshold(frames)
    THEN score - ScoreDecay
    ELSE Min(MaxScore, score + ScoreRecovery)

\* faulty variant: the score decays on every frame of a distracted run
UpdateScoreOnVerdict(score, frames) ==
    IF frames > 0
    THEN Max(0, score - ScoreDecay)
    ELSE Min(MaxScore, score + ScoreRecovery)

UpdateScore(score, frames) ==
    IF OverThreshold(frames)
    THEN Max(0, score - ScoreDecay)
    ELSE Min(MaxScore, score + ScoreRecovery)

\* int(self.focus_score)
ReturnedScore(score) == score \div ScoreUnit

\* faulty variant: the start branch does not test that no event is open
DistractionStartsUnguarded(open, frames) == OverThreshold(frames)

\* faulty variant: the event opens one frame before the status flips
DistractionStartsEarly(open, frames) ==
    ~open /\ frames >= DISTRACTION_THRESHOLD

DistractionStarts(open, frames) == ~open /\ OverThreshold(frames)
\* faulty variant: the end branch does not test that an event is open
DistractionEndsUnguarded(open, frames) == ~OverThreshold(frames)

DistractionEnds(open, frames) == open /\ ~OverThreshold(frames)

\* Python truthiness of self.distraction_start_time
Truthy(t) == t # None /\ t # 0

HistoryEntry(n, start, reason, end, snapshot) ==
    [id |-> n, timestamp |-> IntSeconds(start), reason |-> reason,
     duration |-> end - start, snapshot_url |-> snapshot]

----------------------------------------------------------------------------
(* Initial state: VideoCamera.__init__, no client connected *)

Idle == [op |-> "init"]

\* the two contexts that call get_frame: the generate_frames loop, which
\* Starlette iterates in a worker thread, and the /stats handler, which
\* runs on the event loop
Callers == {"video_feed", "stats"}

\* a caller that is not inside get_frame
NoCall == [pc |-> "idle", sig |-> FailedRead, reason |-> ""]

\* no frame in flight: what the next frame to begin finds
NoRound ==
    [frames_before |-> 0, score_before |-> InitialScore, open_before |-> FALSE,
     verdicts |-> <<>>, opened |-> 0, appended |-> 0]

Init ==
    /\ status = "FOCUSED"
    /\ focus_score = InitialScore
    /\ distracted_frames = 0
    /\ baseline_dist = DefaultBaseline
    /\ is_calibrating = FALSE
    /\ history = <<>>
    /\ started_at = <<>>
    /\ snapshot_files = {}
    /\ sessions = <<>>
    /\ is_currently_distracted = FALSE
    /\ distraction_start_time = None
    /\ distraction_reason = ""
    /\ distraction_snapshot_filename = None
    /\ current_session_start = None
    /\ current_session_history_index = None
    /\ now = 1
    /\ streaming = FALSE
    /\ last = Idle
    /\ pc = "idle"
    /\ inflight = [sig |-> FailedRead, armed |-> FALSE]
    /\ pending_call = FALSE
    /\ fresh_call = FALSE
    /\ calls = [c \in Callers |-> NoCall]
    /\ round = NoRound

----------------------------------------------------------------------------
(* VideoCamera.get_frame, run to completion *)

\* what get_frame leaves in `last`: the frame, what the call found on entry
\* (the armed flag it read, the counter, the score, the open event, the
\* length of history), the raw verdict, the edge taken by the recorder and the
\* returned (status, int(score))
FrameResult(caller, sig, armed, v, edge, st, sc) ==
    [op |-> caller, sig |-> sig,
     armed_before |-> armed, frames_before |-> distracted_frames,
     score_before |-> focus_score,
     open_before |-> is_currently_distracted, history_before |-> Len(history),
     is_distracted |-> v.is_distracted, reason |-> v.reason,
     posture_checked |-> v.posture_checked,
     recalibrated |-> v.posture_checked /\ armed,
     edge |-> edge, status |-> st, score |-> sc]

\* the early return of a failed camera read
ErrorResult(caller, sig) ==
    [op |-> caller, sig |-> sig,
     armed_before |-> is_calibrating, frames_before |-> distracted_frames,
     score_before |-> focus_score,
     open_before |-> is_currently_distracted, history_before |-> Len(history),
     is_distracted |-> FALSE, reason |-> "",
     posture_checked |-> FALSE, recalibrated |-> FALSE,
     edge |-> "none", status |-> "ERROR", score |-> 0]

\* the lines of get_frame after the decision tree, for raw verdict v.  The
\* start branch names a new snapshot file and calls cv2.imwrite, whose
\* result is not read: the name is stored whether or not the file was
\* written.  If cv2.imwrite raises, get_frame ends there: the event is open
\* with no file name, and status and score are as the frame found them.
Track(caller, sig, armed, v) ==
    LET frames == CountFrames(distracted_frames, v.is_distracted)
        starts == DistractionStarts(is_currently_distracted, frames)
        ends   == DistractionEnds(is_currently_distracted, frames)
        score  == UpdateScore(focus_score, frames)
        raised == starts /\ sig.imwrite = "raises"
        name   == Len(history) + 1
    IN  /\ distracted_frames' = frames
        /\ is_currently_distracted' =
               IF starts THEN TRUE ELSE IF ends THEN FALSE
               ELSE is_currently_distracted
        /\ distraction_start_time' =
               IF starts THEN now ELSE IF ends THEN None
               ELSE distraction_start_time
        /\ distraction_reason' =
               IF starts THEN v.reason ELSE IF ends THEN ""
               ELSE distraction_reason
        /\ snapshot_files' =
               IF starts /\ sig.imwrite = "written"
               THEN snapshot_files \cup {name} ELSE snapshot_files
        /\ distraction_snapshot_filename' =
               IF raised THEN distraction_snapshot_filename
               ELSE IF starts THEN name ELSE IF ends THEN None
               ELSE distraction_snapshot_filename
        /\ history' =
               IF ends /\ Truthy(distraction_start_time)
               THEN Append(history,
                           HistoryEntry(Len(history) + 1, distraction_start_time,
                                        distraction_reason, now,
                                        distraction_snapshot_filename))
               ELSE history
        /\ started_at' =
               IF ends /\ Truthy(distraction_start_time)
               THEN Append(started_at, distraction_start_time)
               ELSE started_at
        /\ status' = IF raised THEN status ELSE StableStatus(frames)
        /\ focus_score' = IF raised THEN focus_score ELSE score
        /\ last' = FrameResult(caller, sig, armed, v,
                               IF starts THEN "start" ELSE IF ends THEN "end"
                               ELSE "none",
                               IF raised THEN "EXCEPTION" ELSE StableStatus(frames),
                               IF raised THEN None ELSE ReturnedScore(score))

GetFrame(caller, sig) ==
    IF ~sig.success
    THEN /\ last' = ErrorResult(caller, sig)
         /\ UNCHANGED <<camvars, calvars, pending_call>>
    ELSE LET v == Classify(sig.detections, sig.pose_landmarks,
                           baseline_dist, is_calibrating)
         IN  /\ baseline_dist' = v.baseline_dist
             /\ is_calibrating' = v.is_calibrating
             /\ pending_call' = (pending_call /\ ~(v.posture_checked /\ is_calibrating))
             /\ Track(caller, sig, is_calibrating, v)

\* the model explores runs of at most maxdf distracted frames and
\* histories of at most maxhist events
Explored(sig, maxdf, maxhist) ==
    \/ ~sig.success
    \/ LET v == Classify(sig.detections, sig.pose_landmarks,
                         baseline_dist, is_calibrating)
           frames == CountFrames(distracted_frames, v.is_distracted)
       IN  /\ frames <= maxdf
           /\ DistractionEnds(is_currently_distracted, frames)
                  => Len(history) < maxhist

----------------------------------------------------------------------------
(* The handlers of main.py *)

\* GET /video_feed: a client starts a generate_frames loop
OpenFeed ==
    /\ ~streaming
    /\ streaming' = TRUE
    /\ UNCHANGED <<camvars, calvars, sessvars, now, last, racevars, twovars>>

\* one iteration of generate_frames: an empty frame ends the loop, and so
\* does an exception out of get_frame
FeedFrame(sig, maxdf, maxhist) ==
    /\ streaming
    /\ pc = "idle"
    /\ Explored(sig, maxdf, maxhist)
    /\ GetFrame("video_feed", sig)
    /\ streaming' = (sig.success /\ last'.status # "EXCEPTION")
    /\ UNCHANGED <<sessvars, now, pc, inflight, fresh_call, twovars>>

\* GET /stats
Stats(sig, maxdf, maxhist) ==
    /\ pc = "idle"
    /\ Explored(sig, maxdf, maxhist)
    /\ GetFrame("stats", sig)
    /\ UNCHANGED <<sessvars, now, streaming, pc, inflight, fresh_call, twovars>>

\* POST /calibrate: VideoCamera.calibrate
Calibrate ==
    /\ is_calibrating' = TRUE
    /\ pending_call' = TRUE
    /\ fresh_call' = (pc # "idle")
    /\ last' = [op |-> "calibrate", status |-> "calibrated"]
    /\ UNCHANGED <<camvars, baseline_dist, sessvars, now, streaming, pc, inflight, twovars>>

\* time passes
Tick ==
    /\ now < MaxClock
    /\ now' = now + 1
    /\ UNCHANGED <<camvars, calvars, sessvars, streaming, last, racevars, twovars>>

----------------------------------------------------------------------------
(* Sessions *)

RECURSIVE SumDurations(_)
SumDurations(events) ==
    IF events = <<>> THEN 0
    ELSE Head(events).duration + SumDurations(Tail(events))

\* self.history[index:], or all of history when the index is None
SessionEvents(events, index) ==
    IF index # None THEN SubSeq(events, index + 1, Len(events)) ELSE events

SessionSummary(n, start, end, events) ==
    [id |-> n, start_time |-> IntSeconds(start), end_time |-> IntSeconds(end),
     duration |-> end - start, distraction_count |-> Len(events),
     total_distraction_time |-> SumDurations(events), avg_focus_score |-> 100]

\* POST /session/start: VideoCamera.start_session
StartSession ==
    /\ pc = "idle"
    /\ Len(sessions) < MaxSessions
    /\ current_session_start' = now
    /\ current_session_history_index' = Len(history)
    /\ last' = [op |-> "start", status |-> "started", at |-> now,
                start_before |-> current_session_start,
                index_before |-> current_session_history_index]
    /\ UNCHANGED <<camvars, calvars, sessions, now, streaming, racevars, twovars>>

\* faulty variant: stop_session without its test for an open session
StopSessionNoGuard ==
    /\ pc = "idle"
    /\ LET summary ==
               SessionSummary(Len(sessions) + 1, current_session_start, now,
                              SessionEvents(history, current_session_history_index))
       IN  /\ Len(sessions) < MaxSessions + 1
           /\ sessions' = Append(sessions, summary)
           /\ current_session_start' = None
           /\ current_session_history_index' = None
           /\ last' = [op |-> "stop", status |-> "stopped", session |-> <<summary>>]
    /\ UNCHANGED <<camvars, calvars, now, streaming, racevars, twovars>>

\* POST /session/stop: VideoCamera.stop_session; the summary is None when
\* no session is open
StopSession ==
    /\ pc = "idle"
    /\ IF current_session_start = None
       THEN /\ last' = [op |-> "stop", status |-> "stopped", session |-> <<>>]
            /\ UNCHANGED sessvars
       ELSE LET summary ==
                    SessionSummary(Len(sessions) + 1, current_session_start, now,
                                   SessionEvents(history, current_session_history_index))
            IN  /\ sessions' = Append(sessions, summary)
                /\ current_session_start' = None
                /\ current_session_history_index' = None
                /\ last' = [op |-> "stop", status |-> "stopped", session |-> <<summary>>,
                            session_start |-> current_session_start,
                            session_end |-> now]
    /\ UNCHANGED <<camvars, calvars, now, streaming, racevars, twovars>>

----------------------------------------------------------------------------
(* Queries *)

\* list(reversed(seq))
Reversed(seq) == [i \in 1..Len(seq) |-> seq[Len(seq) + 1 - i]]

\* VideoCamera.get_history: most recent first
get_history == Reversed(history)

\* VideoCamera.get_sessions: most recent first
get_sessions == Reversed(sessions)

\* GET /api/history/{session_id}: the events of history that the handler
\* keeps for a session (a filter on the event's timestamp)
SessionHistoryFilter(events, session) ==
    SelectSeq(events, LAMBDA e : session.start_time <= e.timestamp
                                 /\ e.timestamp <= session.end_time)

\* the ids a client may ask for: those of the sessions explored and one more
SessionIds == 1..(MaxSessions + 1)

\* GET /api/history
History ==
    /\ last' = [op |-> "history", history |-> get_history]
    /\ UNCHANGED <<camvars, calvars, sessvars, now, streaming, racevars, twovars>>

\* GET /api/history/{session_id}: an unknown id is answered with no events
SessionHistory(session_id) ==
    /\ LET found == SelectSeq(get_sessions, LAMBDA s : s.id = session_id)
       IN  last' = [op |-> "session_history", session_id |-> session_id,
                    found |-> found # <<>>,
                    history |-> IF found = <<>> THEN <<>>
                                ELSE SessionHistoryFilter(get_history, found[1])]
    /\ UNCHANGED <<camvars, calvars, sessvars, now, streaming, racevars, twovars>>

\* GET /api/sessions
ListSessions ==
    /\ last' = [op |-> "sessions", sessions |-> get_sessions]
    /\ UNCHANGED <<camvars, calvars, sessvars, now, streaming, racevars, twovars>>

----------------------------------------------------------------------------
(* get_frame of the frame loop, step by step: calibrate() may run between  *)
(* the steps.  Only the posture branch reads or writes the calibration     *)
(* state, so a frame is split at the accesses of that branch.              *)

ReachesPosture(sig) ==
    LET flags == ScanDetections(sig.detections)
    IN  sig.success /\ ~flags.has_phone /\ ~flags.has_study_material
        /\ sig.pose_landmarks # <<>>

\* up to and including the test `if self.is_calibrating`
FrameBegin(sig, maxdf, maxhist) ==
    /\ streaming
    /\ pc = "idle"
    /\ ReachesPosture(sig)
    /\ Explored(sig, maxdf, maxhist)
    /\ inflight' = [sig |-> sig, armed |-> is_calibrating]
    /\ fresh_call' = FALSE
    /\ pc' = IF is_calibrating THEN "recalibrate" ELSE "compare"
    /\ UNCHANGED <<camvars, calvars, sessvars, now, streaming, last, pending_call, twovars>>

\* self.baseline_dist = current_dist - 0.05
FrameRecalibrate ==
    /\ pc = "recalibrate"
    /\ baseline_dist' = CalibratedBaseline(inflight.sig.pose_landmarks[1])
    /\ pc' = "clear"
    /\ UNCHANGED <<camvars, is_calibrating, sessvars, now, streaming, last,
                   inflight, pending_call, fresh_call, twovars>>

\* self.is_calibrating = False
FrameClear ==
    /\ pc = "clear"
    /\ is_calibrating' = FALSE
    /\ pending_call' = fresh_call
    /\ pc' = "compare"
    /\ UNCHANGED <<camvars, baseline_dist, sessvars, now, streaming, last,
                   inflight, fresh_call, twovars>>

\* the comparison with the threshold line and the rest of get_frame
FrameCompare ==
    /\ pc = "compare"
    /\ LET sig == inflight.sig
           below == NoseBelowLine(sig.pose_landmarks[1], baseline_dist)
           v == Verdict(below, IF below THEN "POSTURE" ELSE "", baseline_dist,
                        is_calibrating, TRUE)
       IN  Track("video_feed", sig, inflight.armed, v)
    /\ pc' = "idle"
    /\ fresh_call' = FALSE
    /\ UNCHANGED <<calvars, sessvars, now, streaming, inflight, pending_call, twovars>>

----------------------------------------------------------------------------
(* get_frame called by the frame loop and by /stats at once.  Nothing in   *)
(* VideoCamera or main.py keeps the two calls apart, so the statements of  *)
(* one call run between those of the other.  A call is split where the     *)
(* shared fields are read or written again after the thread may have been  *)
(* switched: after the counter update, after the edge test, inside the     *)
(* start branch at cv2.imwrite and inside the end branch at print.  The    *)
(* frames carry no pose, so the calibration state is not touched.          *)

OtherCaller(c) == CHOOSE o \in Callers : o # c

\* lines 94-215: read and classify the frame, update the counter.  `round`
\* notes what the first frame of a group of overlapping calls found and the
\* verdicts of the group; a caller takes part in a group once.
CallBegin(c, sig) ==
    /\ calls[c].pc = "idle"
    /\ c = "video_feed" => streaming
    /\ distracted_frames < MaxDF /\ Len(history) < MaxHistory
    /\ LET v == Classify(sig.detections, sig.pose_landmarks,
                         baseline_dist, is_calibrating)
       IN  /\ distracted_frames' = CountFrames(distracted_frames, v.is_distracted)
           /\ calls' = [calls EXCEPT ![c] =
                            [pc |-> "edge", sig |-> sig, reason |-> v.reason]]
           /\ IF calls[OtherCaller(c)].pc = "idle"
              THEN round' = [frames_before |-> distracted_frames,
                             score_before |-> focus_score,
                             open_before |-> is_currently_distracted,
                             verdicts |-> <<v.is_distracted>>,
                             opened |-> 0, appended |-> 0]
              ELSE /\ Len(round.verdicts) = 1
                   /\ round' = [round EXCEPT
                                    !.verdicts = Append(@, v.is_distracted)]
    /\ UNCHANGED <<status, focus_score, is_currently_distracted,
                   distraction_start_time, distraction_reason,
                   distraction_snapshot_filename, history, started_at,
                   snapshot_files, calvars, sessvars, now, streaming, last,
                   racevars>>

\* lines 218 and 231: the tests of the start and the end branch
CallEdge(c) ==
    /\ calls[c].pc = "edge"
    /\ calls' = [calls EXCEPT ![c].pc =
                     IF DistractionStarts(is_currently_distracted, distracted_frames)
                     THEN "start"
                     ELSE IF DistractionEnds(is_currently_distracted, distracted_frames)
                          THEN "end" ELSE "status"]
    /\ UNCHANGED <<camvars, calvars, sessvars, now, streaming, last, racevars, round>>

\* lines 220-222: the event is opened
CallStart(c) ==
    /\ calls[c].pc = "start"
    /\ is_currently_distracted' = TRUE
    /\ distraction_start_time' = now
    /\ distraction_reason' = calls[c].reason
    /\ round' = [round EXCEPT !.opened = @ + 1]
    /\ calls' = [calls EXCEPT ![c].pc = "snapshot"]
    /\ UNCHANGED <<status, focus_score, distracted_frames,
                   distraction_snapshot_filename, history, started_at,
                   snapshot_files, calvars, sessvars, now, streaming, last,
                   racevars>>

\* lines 225-229: the snapshot is written and its name stored
CallSnapshot(c) ==
    /\ calls[c].pc = "snapshot"
    /\ snapshot_files' = snapshot_files \cup {Len(history) + 1}
    /\ distraction_snapshot_filename' = Len(history) + 1
    /\ calls' = [calls EXCEPT ![c].pc = "status"]
    /\ UNCHANGED <<status, focus_score, distracted_frames,
                   is_currently_distracted, distraction_start_time,
                   distraction_reason, history, started_at,
                   calvars, sessvars, now, streaming, last, racevars, round>>

\* lines 233-243: the event is closed and appended to history
CallEnd(c) ==
    /\ calls[c].pc = "end"
    /\ is_currently_distracted' = FALSE
    /\ IF Truthy(distraction_start_time)
       THEN /\ history' = Append(history,
                                 HistoryEntry(Len(history) + 1, distraction_start_time,
                                              distraction_reason, now,
                                              distraction_snapshot_filename))
            /\ started_at' = Append(started_at, distraction_start_time)
            /\ round' = [round EXCEPT !.appended = @ + 1]
       ELSE UNCHANGED <<history, started_at, round>>
    /\ calls' = [calls EXCEPT ![c].pc = "clear"]
    /\ UNCHANGED <<status, focus_score, distracted_frames,
                   distraction_start_time, distraction_reason,
                   distraction_snapshot_filename, snapshot_files,
                   calvars, sessvars, now, streaming, last, racevars>>

\* lines 244-246: the fields of the open event are cleared
CallClear(c) ==
    /\ calls[c].pc = "clear"
    /\ distraction_start_time' = None
    /\ distraction_reason' = ""
    /\ distraction_snapshot_filename' = None
    /\ calls' = [calls EXCEPT ![c].pc = "status"]
    /\ UNCHANGED <<status, focus_score, distracted_frames,
                   is_currently_distracted, history, started_at, snapshot_files,
                   calvars, sessvars, now, streaming, last, racevars, round>>

\* lines 249-266: status, score and the return
CallStatus(c) ==
    /\ calls[c].pc = "status"
    /\ status' = StableStatus(distracted_frames)
    /\ focus_score' = UpdateScore(focus_score, distracted_frames)
    /\ last' = [op |-> c, sig |-> calls[c].sig,
                status |-> StableStatus(distracted_frames),
                score |-> ReturnedScore(UpdateScore(focus_score, distracted_frames))]
    /\ calls' = [calls EXCEPT ![c] = NoCall]
    /\ UNCHANGED <<distracted_frames, is_currently_distracted,
                   distraction_start_time, distraction_reason,
                   distraction_snapshot_filename, history, started_at,
                   snapshot_files, calvars, sessvars, now, streaming,
                   racevars, round>>

----------------------------------------------------------------------------
(* Specifications *)

\* the engine driven one handler at a time, one frame of each kind
Next ==
    \/ OpenFeed
    \/ \E sig \in BranchSignals : FeedFrame(sig, MaxDF, MaxHistory)
    \/ \E sig \in BranchSignals : Stats(sig, MaxDF, MaxHistory)
    \/ Calibrate

Spec == Init /\ [][Next]_vars

\* every frame the detector and the pose model can deliver, short runs
NextClassify ==
    \/ OpenFeed
    \/ \E sig \in Signals : FeedFrame(sig, MaxBurst, MaxHistory)
    \/ Calibrate

SpecClassify == Init /\ [][NextClassify]_vars

\* long runs of frames, for the score
NextScore ==
    \/ OpenFeed
    \/ \E sig \in PlainSignals : FeedFrame(sig, MaxRun, MaxScoreEvents)

SpecScore == Init /\ [][NextScore]_vars

\* frames, the clock and the session handlers
NextSession ==
    \/ OpenFeed
    \/ \E sig \in SceneSignals : FeedFrame(sig, MaxDF, MaxSessionEvents)
    \/ StartSession
    \/ StopSession
    \/ Tick

SpecSession == Init /\ [][NextSession]_vars

\* frames and the clock, for the event recorder
NextEvents ==
    \/ OpenFeed
    \/ \E sig \in EventSignals : FeedFrame(sig, MaxDF, MaxHistory)
    \/ Tick

SpecEvents == Init /\ [][NextEvents]_vars

\* the frame loop in its thread, calibrate() on the event loop
NextRace ==
    \/ OpenFeed
    \/ \E sig \in PoseSignals : FeedFrame(sig, MaxBurst, MaxHistory)
    \/ \E sig \in PoseSignals : FrameBegin(sig, MaxBurst, MaxHistory)
    \/ FrameRecalibrate
    \/ FrameClear
    \/ FrameCompare
    \/ Calibrate

SpecRace == Init /\ [][NextRace]_vars

\* frames, sessions, the clock and the clients' queries
NextQueries ==
    \/ OpenFeed
    \/ \E sig \in SceneSignals : FeedFrame(sig, MaxDF, MaxSessionEvents)
    \/ \E sig \in SceneSignals : Stats(sig, MaxDF, MaxSessionEvents)
    \/ StartSession
    \/ StopSession
    \/ Tick
    \/ History
    \/ \E id \in SessionIds : SessionHistory(id)
    \/ ListSessions

SpecQueries == Init /\ [][NextQueries]_vars

\* frames whose snapshot may fail
NextSnapshot ==
    \/ OpenFeed
    \/ \E sig \in SnapshotSignals : FeedFrame(sig, MaxDF, MaxHistory)

SpecSnapshot == Init /\ [][NextSnapshot]_vars

\* the frame loop and /stats, each inside get_frame at its own pace
NextTwoCallers ==
    \/ OpenFeed
    \/ \E c \in Callers, sig \in SceneSignals : CallBegin(c, sig)
    \/ \E c \in Callers : CallEdge(c)
    \/ \E c \in Callers : CallStart(c)
    \/ \E c \in Callers : CallSnapshot(c)
    \/ \E c \in Callers : CallEnd(c)
    \/ \E c \in Callers : CallClear(c)
    \/ \E c \in Callers : CallStatus(c)

SpecTwoCallers == Init /\ [][NextTwoCallers]_vars

----------------------------------------------------------------------------
(* Properties *)

\* the last handler was get_frame, the camera delivered a frame and the
\* call returned
FrameDone ==
    /\ last.op \in {"video_feed", "stats"}
    /\ last.sig.success /\ last.status # "EXCEPTION"

HasCategory(dets, cats) == \E i \in 1..Len(dets) : dets[i] \in cats

\* C1: a frame with a distracted raw verdict adds one to the counter of
\* consecutive distracted frames; while that counter is 1..15 the returned
\* status is FOCUSED, from 16 on it is DISTRACTED; a frame with a
\* non-distracted verdict puts the counter at 0 and returns FOCUSED.  The
\* counter starts at 0 and the status at FOCUSED.
C1_Hysteresis ==
    /\ last.op = "init" => distracted_frames = 0 /\ status = "FOCUSED"
    /\ FrameDone =>
         /\ status = last.status
         /\ IF last.is_distracted
            THEN /\ distracted_frames = last.frames_before + 1
                 /\ distracted_frames \in 1..15 => last.status = "FOCUSED"
                 /\ distracted_frames >= 16 => last.status = "DISTRACTED"
            ELSE distracted_frames = 0 /\ last.status = "FOCUSED"

\* the 16th consecutive distracted frame has just flipped the status
C1_Witness ==
    /\ FrameDone /\ last.is_distracted
    /\ last.frames_before = 15 /\ distracted_frames = 16
    /\ last.status = "DISTRACTED"

\* C2: focus_score is within [0, 100] after every get_frame call and the
\* integer score returned to the caller is within 0..100.
C2_ScoreInRange ==
    /\ 0 <= focus_score /\ focus_score <= 100 * ScoreUnit
    /\ last.op \in {"video_feed", "stats"} => last.score \in 0..100

\* a run of distracted frames long enough for the decay to hit the floor
C2_Witness ==
    /\ FrameDone /\ last.status = "DISTRACTED"
    /\ focus_score = 0 /\ last.score = 0
    /\ distracted_frames = MaxRun

\* C3: a frame with a phone detection has the raw verdict distracted/PHONE,
\* whatever else the frame carries and whatever the calibration state is.
C3_PhoneOverrides ==
    (FrameDone /\ HasCategory(last.sig.detections, {"cell phone", "mobile phone"}))
        => last.is_distracted /\ last.reason = "PHONE"

\* a phone after study material, with a pose, while calibration is armed
C3_Witness ==
    /\ FrameDone
    /\ last.sig.detections = <<"book", "mobile phone">>
    /\ last.sig.pose_landmarks # <<>>
    /\ last.armed_before
    /\ last.reason = "PHONE"

\* C4: a frame with study material and no phone has the raw verdict not
\* distracted/STUDYING whatever the pose; the posture comparison is not
\* made on it (and so the calibration state is left alone) and the counter
\* of distracted frames is 0 after it.
C4_StudyingWins ==
    (/\ FrameDone
     /\ HasCategory(last.sig.detections, {"book", "laptop"})
     /\ ~HasCategory(last.sig.detections, {"cell phone", "mobile phone"}))
        => /\ ~last.is_distracted /\ last.reason = "STUDYING"
           /\ ~last.posture_checked /\ ~last.recalibrated
           /\ is_calibrating = last.armed_before
           /\ distracted_frames = 0

\* a laptop in view, the nose below the threshold line, after distracted frames
C4_Witness ==
    /\ FrameDone
    /\ last.sig.detections = <<"laptop">>
    /\ last.sig.pose_landmarks # <<>>
    /\ NoseBelowLine(last.sig.pose_landmarks[1], baseline_dist)
    /\ last.frames_before > 0
    /\ last.reason = "STUDYING" /\ distracted_frames = 0


\* C5 (as claimed): the first frame with pose data processed while the
\* calibration flag is armed clears the flag and installs the baseline
\* (shoulderY - noseY) - 0.05 of its pose, whatever detections it carries.
C5_Claimed_FirstPoseFrameRecalibrates ==
    (FrameDone /\ last.sig.pose_landmarks # <<>> /\ last.armed_before)
        => /\ ~is_calibrating
           /\ baseline_dist = CalibratedBaseline(last.sig.pose_landmarks[1])

\* C6 (as claimed): while a calibrate() call that has returned is not yet
\* honoured by a recalibration on a frame that tested the flag after the
\* call, the flag stays armed.
C6_Claimed_CallHonoured == pending_call => is_calibrating

\* C7 (as claimed): start_session while a session is open (here: one
\* opened at an earlier reading of the clock) is reported as an error and
\* leaves current_session_start and current_session_history_index as the
\* first start set them.
C7_Claimed_SecondStartFails ==
    (last.op = "start" /\ last.start_before # None /\ last.start_before < last.at)
        => /\ last.status # "started"
           /\ current_session_start = last.start_before
           /\ current_session_history_index = last.index_before

StartedWithin(from, to) ==
    { i \in 1..Len(history) : from <= started_at[i] /\ started_at[i] <= to }

\* the same, leaving out the events that started on the reading of the
\* clock that start_session or stop_session made
StartedInside(from, to) ==
    { i \in 1..Len(history) : from < started_at[i] /\ started_at[i] < to }

RECURSIVE TotalDuration(_)
TotalDuration(indexes) ==
    IF indexes = {} THEN 0
    ELSE LET i == CHOOSE j \in indexes : TRUE
         IN  history[i].duration + TotalDuration(indexes \ {i})

\* C9 (as claimed): the summary returned by stop_session counts the events
\* whose start time lies between the start and the end of the session, and
\* totals their durations; an event that started before start_session is
\* not counted.  An event that started on the very clock reading of the
\* session's start or end may count either way here.
C9_Claimed_SummaryCountsByStartTime ==
    (last.op = "stop" /\ last.session # <<>>)
        => LET s == last.session[1]
               within == StartedWithin(last.session_start, last.session_end)
               inside == StartedInside(last.session_start, last.session_end)
           IN  /\ Cardinality(inside) <= s.distraction_count
               /\ s.distraction_count <= Cardinality(within)
               /\ TotalDuration(inside) <= s.total_distraction_time
               /\ s.total_distraction_time <= TotalDuration(within)

\* C10 (as claimed): no distraction start is left without an end: once the
\* frame loop has ended, no event is open.
C10_Claimed_NoStartLeftOpen ==
    (last.op = "video_feed" /\ ~last.sig.success /\ ~streaming)
        => ~is_currently_distracted

\* C10 (amended): the recorder opens an event only when none is open and
\* closes one only when one is open; an open event is closed by the first
\* later frame whose verdict is not distracted, which appends exactly one
\* entry, of duration >= 0, to history; every other frame, and a failed
\* read, leave both the open event and history as they were.
C10_StartsAndEndsMatch ==
    /\ FrameDone =>
         /\ last.edge = "start" =>
              /\ ~last.open_before /\ is_currently_distracted
              /\ Truthy(distraction_start_time)
              /\ Len(history) = last.history_before
         /\ last.edge = "end" =>
              /\ last.open_before /\ ~is_currently_distracted
              /\ distraction_start_time = None
              /\ Len(history) = last.history_before + 1
              /\ history[Len(history)].duration >= 0
         /\ last.edge = "none" =>
              /\ is_currently_distracted = last.open_before
              /\ Len(history) = last.history_before
         /\ last.open_before =>
              (last.edge = IF last.is_distracted THEN "none" ELSE "end")
    /\ (last.op \in {"video_feed", "stats"} /\ ~last.sig.success) =>
         /\ is_currently_distracted = last.open_before
         /\ Len(history) = last.history_before

\* the second event has just been closed, after time has passed
C10_Witness ==
    /\ FrameDone /\ last.edge = "end"
    /\ Len(history) = 2 /\ history[2].duration > 0

\* no call of get_frame is in flight
Quiet == \A c \in Callers : calls[c].pc = "idle"

\* one get_frame run alone on a frame of raw verdict d, from what st
\* describes: the counter, the score, the open event, and how many events
\* were opened and appended so far
SerialFrame(st, d) ==
    LET frames == CountFrames(st.frames, d)
        starts == DistractionStarts(st.open, frames)
        ends   == DistractionEnds(st.open, frames)
    IN  [frames |-> frames,
         score |-> UpdateScore(st.score, frames),
         open |-> IF starts THEN TRUE ELSE IF ends THEN FALSE ELSE st.open,
         opened |-> st.opened + (IF starts THEN 1 ELSE 0),
         appended |-> st.appended + (IF ends THEN 1 ELSE 0)]

RECURSIVE SerialRun(_, _)
SerialRun(st, ds) ==
    IF ds = <<>> THEN st ELSE SerialRun(SerialFrame(st, Head(ds)), Tail(ds))

\* the orders in which the frames of a group can run one after the other
SerialOrders(ds) ==
    IF Len(ds) = 2 THEN {ds, <<ds[2], ds[1]>>} ELSE {ds}

\* C11 (as claimed): when the calls of get_frame made by the frame loop and
\* by /stats have all returned, distracted_frames, focus_score, the open
\* event and the numbers of events opened and appended by those calls are
\* those of the same frames processed one after the other, in some order.
C11_Claimed_SerialOutcome ==
    (Quiet /\ round.verdicts # <<>>)
        => \E ds \in SerialOrders(round.verdicts) :
             SerialRun([frames |-> round.frames_before,
                        score |-> round.score_before,
                        open |-> round.open_before,
                        opened |-> 0, appended |-> 0], ds)
               = [frames |-> distracted_frames, score |-> focus_score,
                  open |-> is_currently_distracted,
                  opened |-> round.opened, appended |-> round.appended]

\* C12 (as claimed): from the initial state, after exactly 15 consecutive
\* distracted frames the score is 100 - 0.5 * 15 = 92.5.
C12_Claimed_ScoreAfter15 ==
    (/\ FrameDone /\ last.is_distracted
     /\ distracted_frames = 15
     /\ history = <<>> /\ ~is_currently_distracted)
        => focus_score = 925

\* C12 (amended): until the first event has been recorded, the score is
\* 100 while the status has not flipped (so after 15 consecutive distracted
\* frames it is still 100) and max(0, 100 - 0.5 * k) after 15 + k
\* consecutive distracted frames: 99.5 after 16, 92.5 after 30.
C12_ScoreAfterRun ==
    history = <<>> =>
        focus_score = IF is_currently_distracted
                      THEN Max(0, InitialScore - ScoreDecay * (distracted_frames - 15))
                      ELSE InitialScore

\* the 15th consecutive distracted frame from the initial state
C12_Witness ==
    /\ FrameDone /\ last.is_distracted
    /\ last.frames_before = 14 /\ distracted_frames = 15
    /\ history = <<>> /\ ~is_currently_distracted
    /\ focus_score = 1000 /\ last.score = 100

\* C13 (as claimed): when the snapshot write fails on the frame that
\* starts a distraction, the frame is still processed to the end (the
\* status and the score are those of a DISTRACTED frame), the event is
\* open, and it carries no snapshot reference, while open and once in
\* history: every snapshot_url of history names a file that was written.
C13_Claimed_FailedSnapshotIsNone ==
    /\ (/\ last.op \in {"video_feed", "stats"} /\ last.sig.success
        /\ last.edge = "start" /\ last.sig.imwrite # "written")
           => /\ last.status = "DISTRACTED" /\ status = "DISTRACTED"
              /\ focus_score = Max(0, last.score_before - 5)
              /\ is_currently_distracted
              /\ distraction_snapshot_filename = None
    /\ \A i \in 1..Len(history) :
           history[i].snapshot_url # None
               => history[i].snapshot_url \in snapshot_files

\* C14: every entry of history has reason PHONE or POSTURE, and so has the
\* open event; a frame whose verdict is STUDYING never opens an event.
C14_ReasonsOfEvents ==
    /\ \A i \in 1..Len(history) : history[i].reason \in {"PHONE", "POSTURE"}
    /\ is_currently_distracted => distraction_reason \in {"PHONE", "POSTURE"}
    /\ (FrameDone /\ last.reason = "STUDYING") =>
           last.edge # "start" /\ ~is_currently_distracted

\* a frame with study material has just closed the second event; one
\* event was opened by a phone, the other by the posture
C14_Witness ==
    /\ FrameDone /\ last.reason = "STUDYING" /\ last.edge = "end"
    /\ Len(history) = 2
    /\ {history[1].reason, history[2].reason} = {"PHONE", "POSTURE"}

\* C15: an event is opened only while none is open; the recorded events
\* do not overlap (an event that started at s and lasted d ends no later
\* than the start of every later event, the open one included), and
\* history is ordered by start time, also by the recorded whole seconds.
C15_EventsDoNotOverlap ==
    /\ (FrameDone /\ last.edge = "start") => ~last.open_before
    /\ is_currently_distracted <=> distraction_start_time # None
    /\ \A i \in 1..Len(history) :
         /\ history[i].duration >= 0
         /\ history[i].timestamp = IntSeconds(started_at[i])
         /\ \A j \in 1..Len(history) :
              i < j => /\ started_at[i] + history[i].duration <= started_at[j]
                       /\ history[i].timestamp <= history[j].timestamp
         /\ is_currently_distracted =>
              started_at[i] + history[i].duration <= distraction_start_time

\* two events of positive duration are recorded and a third one is open
C15_Witness ==
    /\ Len(history) = 2
    /\ history[1].duration > 0
    /\ started_at[1] < started_at[2]
    /\ is_currently_distracted /\ distraction_start_time >= started_at[2]

\* C16: the frame that consumes the armed calibration flag installs the
\* baseline of its own pose before the comparison: the flag is cleared,
\* the nose is not below the new threshold line (nose + 0.05), the raw
\* verdict is not distracted and distracted_frames is 0 after the frame.
C16_CalibratingFrameNotDistracted ==
    (FrameDone /\ last.recalibrated)
        => LET lm == last.sig.pose_landmarks[1]
           IN  /\ baseline_dist = CalibratedBaseline(lm)
               /\ ShoulderSum(lm) - baseline_dist = 2 * lm.nose + CalibrationBuffer
               /\ ~NoseBelowLine(lm, baseline_dist)
               /\ ~is_calibrating
               /\ ~last.is_distracted /\ last.reason # "POSTURE"
               /\ distracted_frames = 0

\* a slouched pose, distracted under the default baseline, recalibrates
\* after a run of distracted frames
C16_Witness ==
    /\ FrameDone /\ last.recalibrated
    /\ last.sig.pose_landmarks = Slouched
    /\ NoseBelowLine(Slouched[1], DefaultBaseline)
    /\ last.frames_before > 0 /\ distracted_frames = 0

\* C17: on every processed frame the score becomes max(0, score - 0.5)
\* when the status the frame results in is DISTRACTED and
\* min(100, score + 0.1) otherwise; it never decreases on a frame
\* resulting in FOCUSED and never increases on one resulting in DISTRACTED.
C17_OneScoreRulePerFrame ==
    FrameDone =>
        /\ status = last.status
        /\ IF status = "DISTRACTED"
           THEN /\ focus_score = Max(0, last.score_before - 5)
                /\ focus_score <= last.score_before
           ELSE /\ focus_score = Min(1000, last.score_before + 1)
                /\ focus_score >= last.score_before

\* the first frame after a long distracted run: the status is back to
\* FOCUSED and the score recovers from the floor
C17_Witness ==
    /\ FrameDone /\ last.status = "FOCUSED"
    /\ last.frames_before > 15
    /\ last.score_before = 0 /\ focus_score = 1

\* C18: after every get_frame call of a sequential execution the status
\* is DISTRACTED exactly when distracted_frames > 15 and exactly when an
\* event is open (is_currently_distracted and distraction_start_time set);
\* an event is opened by the frame that flips the status to DISTRACTED and
\* closed by the frame that flips it back, and by no other frame.
C18_StatusCounterEventAgree ==
    /\ status = "DISTRACTED" <=> distracted_frames > 15
    /\ status = "DISTRACTED" <=> is_currently_distracted
    /\ is_currently_distracted <=> Truthy(distraction_start_time)
    /\ FrameDone =>
         /\ last.edge = "start" <=> (~last.open_before /\ status = "DISTRACTED")
         /\ last.edge = "end" <=> (last.open_before /\ status = "FOCUSED")
         /\ last.open_before <=> last.frames_before > 15

\* the status has just flipped back and the event was closed
C18_Witness ==
    /\ FrameDone /\ last.edge = "end"
    /\ last.frames_before = 16 /\ distracted_frames = 0
    /\ status = "FOCUSED" /\ ~is_currently_distracted
    /\ Len(history) = 1


\* the whole-second timestamps tell whether an event started before,
\* during or after session s: no recorded event started within the second
\* of the session's start or of its end
ToldApart(s) ==
    \A k \in 1..Len(history) : history[k].timestamp \notin {s.start_time, s.end_time}

\* C19 (as claimed): for every closed session the per-session history
\* query returns as many events as the session's stored distraction_count,
\* also when an event was opened before start_session or was still open at
\* stop_session (events that started within the very second of the
\* session's start or end are left out of the comparison).
C19_Claimed_QueryMatchesCount ==
    (last.op = "session_history" /\ last.found)
        => \A i \in 1..Len(sessions) :
             (sessions[i].id = last.session_id /\ ToldApart(sessions[i]))
                 => Len(last.history) = sessions[i].distraction_count

\* C20 (as claimed): serving /stats, /api/history, /api/history/{id} or
\* /api/sessions leaves distracted_frames, status, focus_score, the open
\* event and history unchanged.
C20_Claimed_QueriesArePureReads ==
    [][ last'.op \in {"stats", "history", "session_history", "sessions"}
            => UNCHANGED <<distracted_frames, status, focus_score,
                           is_currently_distracted, distraction_start_time,
                           distraction_reason, history>> ]_vars


====
